---- MODULE Spec2Model ----
(***************************************************************************)
(* AR lipstick try-on (src/script.js): the ARLipstickApp state, its UI     *)
(* handlers, the camera / FaceMesh callbacks and the per-frame overlay      *)
(* rendering, plus the ColorUtils conversions.                              *)
(*                                                                          *)
(* Conventions.  A string the code inspects character by character (a      *)
(* colour, a slider value) is a sequence of one-character strings.  Reals   *)
(* are fixed-point: opacity and alpha are in tenths (7 is 0.7), landmark    *)
(* coordinates in thousandths of the frame.  A number is a record that is  *)
(* either NaN or carries its value.                                         *)
(* The DOM status text, the button labels and the loading indicator are     *)
(* presentation only and are not part of the state.  The visibilitychange   *)
(* listener tests window.app, which the script never assigns, so it has no  *)
(* effect and is left out.  What the browser, the Camera helper and         *)
(* FaceMesh decide (permission, start of the camera, delivery of a result)  *)
(* is a nondeterministic choice.                                            *)
(***************************************************************************)
EXTENDS Integers, Sequences, FiniteSets, TLC

\* ------------------------------------------------------------------ bounds
MaxPending == 1          \* faceMesh.send calls whose result is still in flight

\* --------------------------------------------------------- program constants
cameraWidth == 1280
cameraHeight == 720
NumLandmarks == 478      \* refineLandmarks: true gives the 478-point topology
TenthsPerUnit == 10      \* fixed-point scale of opacity / globalAlpha
DefaultAlpha == 10       \* a fresh 2d context has globalAlpha 1.0
InitialOpacity == 7      \* this.opacity = 0.7
InitialBlur == 1         \* this.blur = 1

\* a JavaScript number: NaN, or a finite value
NaN == [isNaN |-> TRUE, value |-> 0]
Num(v) == [isNaN |-> FALSE, value |-> v]
undefined == "undefined"

InitialColor == <<"#", "F", "F", "6", "B", "6", "B">>

outerLip ==
    << 61, 84, 17, 314, 405, 320, 307, 375, 321, 308, 324, 318,
       13, 82, 81, 80, 78, 95, 88, 178, 87, 14, 317, 402, 318, 324 >>

\* --------------------------------------------------------- character classes
DecDigits == <<"0", "1", "2", "3", "4", "5", "6", "7", "8", "9">>
HexLower  == <<"0", "1", "2", "3", "4", "5", "6", "7", "8", "9",
               "a", "b", "c", "d", "e", "f">>
HexUpper  == <<"0", "1", "2", "3", "4", "5", "6", "7", "8", "9",
               "A", "B", "C", "D", "E", "F">>

IsDecDigit(ch) == \E i \in 1..10 : DecDigits[i] = ch
DecValue(ch)   == (CHOOSE i \in 1..10 : DecDigits[i] = ch) - 1

\* [a-f\d] under the i flag
IsHexDigit(ch) == \E i \in 1..16 : HexLower[i] = ch \/ HexUpper[i] = ch
HexValue(ch)   == (CHOOSE i \in 1..16 : HexLower[i] = ch \/ HexUpper[i] = ch) - 1

\* ------------------------------------------------------------ parseInt/Float
RECURSIVE DigitRun(_, _)
\* length of the run of decimal digits of s starting at position i
DigitRun(s, i) ==
    IF i <= Len(s) /\ IsDecDigit(s[i]) THEN 1 + DigitRun(s, i + 1) ELSE 0

RECURSIVE DigitsValue(_, _, _)
\* value of the n decimal digits of s that start at position i
DigitsValue(s, i, n) ==
    IF n = 0 THEN 0
    ELSE DigitsValue(s, i, n - 1) * 10 + DecValue(s[i + n - 1])

RECURSIVE SkipSpace(_, _)
SkipSpace(s, i) ==
    IF i <= Len(s) /\ s[i] = " " THEN SkipSpace(s, i + 1) ELSE i

\* parseInt(s) with the default radix: optional white space, optional sign,
\* the longest run of digits; NaN when there is no digit.
parseInt(s) ==
    LET i0   == SkipSpace(s, 1)
        neg  == i0 <= Len(s) /\ s[i0] = "-"
        i1   == IF i0 <= Len(s) /\ s[i0] \in {"-", "+"} THEN i0 + 1 ELSE i0
        n    == DigitRun(s, i1)
    IN  IF n = 0 THEN NaN
        ELSE IF neg THEN Num(0 - DigitsValue(s, i1, n))
        ELSE Num(DigitsValue(s, i1, n))

\* parseFloat(s) in tenths: optional sign, digits, optional "." and digits;
\* NaN when neither part has a digit.  Only the first fractional digit is
\* kept (the inputs of the model carry at most one).
parseFloat(s) ==
    LET i0   == SkipSpace(s, 1)
        neg  == i0 <= Len(s) /\ s[i0] = "-"
        i1   == IF i0 <= Len(s) /\ s[i0] \in {"-", "+"} THEN i0 + 1 ELSE i0
        n    == DigitRun(s, i1)
        dot  == i1 + n <= Len(s) /\ s[i1 + n] = "."
        m    == IF dot THEN DigitRun(s, i1 + n + 1) ELSE 0
        frac == IF m = 0 THEN 0 ELSE DecValue(s[i1 + n + 1])
        mag  == DigitsValue(s, i1, n) * TenthsPerUnit + frac
    IN  IF n = 0 /\ m = 0 THEN NaN
        ELSE IF neg THEN Num(0 - mag) ELSE Num(mag)

\* v > 0 as JavaScript evaluates it (false for NaN)
GreaterThanZero(v) == ~v.isNaN /\ v.value > 0

\* ------------------------------------------------------------------- inputs
\* values an input event can carry in e.target.value
SliderValues ==
    { <<"0">>, <<"1", ".", "5">>, <<"-", "1">>, <<"x">> }

\* values a colour click can carry (dataset.color / colorPicker.value)
ColorValues ==
    { <<"#", "e", "9", "1", "e", "6", "3">>, <<"r", "e", "d">> }

\* a landmark frame of n points of face f (coordinates in thousandths)
LandmarkFrame(f, n) ==
    [i \in 1..n |-> [x |-> 300 + ((i * 7 * f) % 400),
                     y |-> 500 + ((i * 3 + f) % 300)]]

\* the results the detector can deliver, by identity
Results ==
    [ noField |-> [image |-> "frame"],
      noFace  |-> [multiFaceLandmarks |-> <<>>],
      faceA   |-> [multiFaceLandmarks |-> <<LandmarkFrame(1, NumLandmarks)>>],
      faceB   |-> [multiFaceLandmarks |-> <<LandmarkFrame(2, NumLandmarks)>>],
      short   |-> [multiFaceLandmarks |-> <<LandmarkFrame(1, 300)>>] ]

ResultIds == DOMAIN Results

\* result.multiFaceLandmarks && result.multiFaceLandmarks.length > 0
HasFace(results) ==
    /\ "multiFaceLandmarks" \in DOMAIN results
    /\ Len(results.multiFaceLandmarks) > 0

\* -------------------------------------------------------------------- state
VARIABLES
    phase,              \* position of initializeApp
    faceMesh,           \* this.faceMesh is set (onResults registered)
    camera,             \* this.camera: "null", "stopped" or "running"
    isInitialized,
    detectionActive,
    currentColor,
    opacity,
    blur,
    isLipstickEnabled,
    canvas,             \* what has been drawn on the overlay since its last clear
    ctx,                \* state of the main 2d context
    pending,            \* faceMesh.send calls in flight
    lastOp,             \* the handler that ran last, with its argument
    thrown,             \* the error that escaped that handler, or "none"
    lastStyleOp,        \* the last of selectPresetColor / resetToNatural that ran
    util                \* a ColorUtils conversion in progress: input, rgb, output

vars == << phase, faceMesh, camera, isInitialized, detectionActive,
           currentColor, opacity, blur, isLipstickEnabled, canvas, ctx,
           pending, lastOp, thrown, lastStyleOp, util >>

style == << currentColor, opacity, blur, isLipstickEnabled >>

\* a fresh 2d context
NewContext ==
    [ globalCompositeOperation |-> "source-over",
      globalAlpha |-> Num(DefaultAlpha),
      fillStyle   |-> <<"#", "0", "0", "0", "0", "0", "0">>,
      filter      |-> <<"none">> ]

Op(name, arg) == [op |-> name, arg |-> arg]

\* no ColorUtils call has been made
UtilIdle == [pc |-> "idle"]

Init ==
    /\ phase = "awaitCamera"
    /\ faceMesh = FALSE
    /\ camera = "null"
    /\ isInitialized = FALSE
    /\ detectionActive = FALSE
    /\ currentColor = InitialColor
    /\ opacity = Num(InitialOpacity)
    /\ blur = Num(InitialBlur)
    /\ isLipstickEnabled = TRUE
    /\ canvas = <<>>
    /\ ctx = NewContext
    /\ pending = 0
    /\ lastOp = Op("constructor", undefined)
    /\ thrown = "none"
    /\ lastStyleOp = "none"
    /\ util = UtilIdle

\* ---------------------------------------------------------------- rendering
\* a canvas element created by document.createElement('canvas')
NewCanvas == [ctx |-> NewContext, pixels |-> <<>>]

\* landmarks[i] of a JavaScript array (0-based); undefined past its end
HasLandmark(landmarks, i) == i + 1 <= Len(landmarks)
LandmarkAt(landmarks, i) == landmarks[i + 1]

\* variant: a clear that leaves the bitmap as it was
clearRectKeeps(cv) == cv

\* ctx.clearRect(0, 0, width, height) over the whole canvas
clearRect(cv) == <<>>

\* ctx.fill() / ctx.fillRect(): the pixels are produced under the context
\* state in force at the time of the call
Paint(target, shape) ==
    [target EXCEPT !.pixels =
        Append(@, [shape  |-> shape,
                   color  |-> target.ctx.fillStyle,
                   alpha  |-> target.ctx.globalAlpha,
                   mode   |-> target.ctx.globalCompositeOperation,
                   filter |-> target.ctx.filter])]

\* drawLipContour: the closed polygon through the landmarks of lipIndices,
\* filled.  Reading .x of a missing landmark throws a TypeError.
drawLipContour(target, landmarks, lipIndices, canvasWidth, canvasHeight) ==
    IF Len(lipIndices) = 0 THEN [threw |-> FALSE, target |-> target]
    ELSE IF \E k \in 1..Len(lipIndices) :
                ~HasLandmark(landmarks, lipIndices[k])
    THEN [threw |-> TRUE, target |-> target]
    ELSE LET path == [k \in 1..Len(lipIndices) |->
                        << LandmarkAt(landmarks, lipIndices[k]).x * canvasWidth,
                           LandmarkAt(landmarks, lipIndices[k]).y * canvasHeight >>]
         IN  [threw |-> FALSE, target |-> Paint(target, path)]

\* the filter string `blur(${radius}px)` of drawLipstick, by its radius
BlurFilter(radius) == <<"blur", radius>>

\* ctx.drawImage(image, 0, 0): the bitmap of image is composited under the
\* destination context's own state; the source context's state plays no part
drawImage(cv, context, image) ==
    Append(cv, [image  |-> image.pixels,
                mode   |-> context.globalCompositeOperation,
                alpha  |-> context.globalAlpha,
                filter |-> context.filter])

\* drawLipstick(landmarks) on the overlay cv with main context context
drawLipstick(cv, context, landmarks) ==
    LET contour == drawLipContour(NewCanvas, landmarks, outerLip,
                                  cameraWidth, cameraHeight)
        lip1 == [contour.target EXCEPT
                    !.ctx.globalCompositeOperation = "source-in",
                    !.ctx.fillStyle = currentColor,
                    !.ctx.globalAlpha = opacity]
        lip2 == Paint(lip1, "rect")
        lip3 == IF GreaterThanZero(blur)
                THEN [lip2 EXCEPT !.ctx.filter = BlurFilter(blur)]
                ELSE lip2
        ctx1 == [context EXCEPT !.globalCompositeOperation = "multiply",
                                !.globalAlpha = opacity]
    IN  IF contour.threw
        THEN [thrown |-> "TypeError", canvas |-> cv, ctx |-> context]
        ELSE [thrown |-> "none",
              canvas |-> drawImage(cv, ctx1, lip3),
              ctx    |-> [ctx1 EXCEPT !.globalCompositeOperation = "source-over",
                                      !.globalAlpha = Num(DefaultAlpha)]]

\* variant: the canvas is cleared only on the branch that draws nothing
processFaceMeshResultsClearsWhenIdle(cv, context, results) ==
    IF HasFace(results) /\ isLipstickEnabled
    THEN drawLipstick(cv, context, results.multiFaceLandmarks[1])
    ELSE [thrown |-> "none", canvas |-> clearRect(cv), ctx |-> context]

\* processFaceMeshResults(results) on the overlay cv with main context context
processFaceMeshResults(cv, context, results) ==
    LET cleared == clearRect(cv)
    IN  IF HasFace(results) /\ isLipstickEnabled
        THEN drawLipstick(cleared, context, results.multiFaceLandmarks[1])
        ELSE [thrown |-> "none", canvas |-> cleared, ctx |-> context]

\* ------------------------------------------------------------ initialization
\* resizeCanvas(): assigning canvas.width / canvas.height resets the bitmap
\* and the context state
resizeCanvas ==
    /\ canvas' = <<>>
    /\ ctx' = NewContext

\* initializeCamera resolves (getUserMedia granted, metadata loaded); then
\* initializeFaceMesh runs up to `await this.camera.start()`
InitializeCameraResolves ==
    /\ phase = "awaitCamera"
    /\ resizeCanvas
    /\ faceMesh' = TRUE
    /\ camera' = "stopped"
    /\ phase' = "awaitStart"
    /\ lastOp' = Op("initializeFaceMesh", undefined)
    /\ thrown' = "none"
    /\ UNCHANGED << isInitialized, detectionActive, currentColor, opacity, blur,
                    isLipstickEnabled, pending, lastStyleOp, util >>

\* getUserMedia rejects: initializeCamera rethrows, initializeApp catches
InitializeCameraRejects ==
    /\ phase = "awaitCamera"
    /\ phase' = "failed"
    /\ lastOp' = Op("initializeApp.catch", undefined)
    /\ thrown' = "none"
    /\ UNCHANGED << faceMesh, camera, isInitialized, detectionActive,
                    currentColor, opacity, blur, isLipstickEnabled, canvas,
                    ctx, pending, lastStyleOp, util >>

\* initializeFaceMesh throws at `new FaceMesh` (nothing set) or at
\* `new Camera` (faceMesh set, camera not); initializeApp catches
InitializeFaceMeshThrows(at) ==
    /\ phase = "awaitCamera"
    /\ resizeCanvas
    /\ faceMesh' = (at = "Camera")
    /\ phase' = "failed"
    /\ lastOp' = Op("initializeApp.catch", undefined)
    /\ thrown' = "none"
    /\ UNCHANGED << camera, isInitialized, detectionActive, currentColor,
                    opacity, blur, isLipstickEnabled, pending, lastStyleOp, util >>

\* `await this.camera.start()` of initializeFaceMesh resolves
CameraStartResolves ==
    /\ phase = "awaitStart"
    /\ camera' = "running"
    /\ detectionActive' = TRUE
    /\ isInitialized' = TRUE
    /\ phase' = "ready"
    /\ lastOp' = Op("initializeFaceMesh", undefined)
    /\ thrown' = "none"
    /\ UNCHANGED << faceMesh, currentColor, opacity, blur, isLipstickEnabled,
                    canvas, ctx, pending, lastStyleOp, util >>

\* `await this.camera.start()` of initializeFaceMesh rejects; initializeApp
\* catches
CameraStartRejects ==
    /\ phase = "awaitStart"
    /\ phase' = "failed"
    /\ lastOp' = Op("initializeApp.catch", undefined)
    /\ thrown' = "none"
    /\ UNCHANGED << faceMesh, camera, isInitialized, detectionActive,
                    currentColor, opacity, blur, isLipstickEnabled, canvas,
                    ctx, pending, lastStyleOp, util >>

\* ------------------------------------------------------------ frame pipeline
\* Camera onFrame: sends the video frame to FaceMesh when detection is active
OnFrame ==
    /\ camera = "running"
    /\ detectionActive => pending < MaxPending
    /\ pending' = IF detectionActive THEN pending + 1 ELSE pending
    /\ lastOp' = Op("onFrame", undefined)
    /\ thrown' = "none"
    /\ UNCHANGED << phase, faceMesh, camera, isInitialized, detectionActive,
                    currentColor, opacity, blur, isLipstickEnabled, canvas,
                    ctx, lastStyleOp, util >>

\* faceMesh.onResults callback: the result of a send in flight arrives
OnResults(id) ==
    /\ pending > 0
    /\ pending' = pending - 1
    /\ LET out == processFaceMeshResults(canvas, ctx, Results[id])
       IN  /\ canvas' = out.canvas
           /\ ctx' = out.ctx
           /\ thrown' = out.thrown
    /\ lastOp' = Op("processFaceMeshResults", id)
    /\ UNCHANGED << phase, faceMesh, camera, isInitialized, detectionActive,
                    currentColor, opacity, blur, isLipstickEnabled,
                    lastStyleOp, util >>

\* ------------------------------------------------------------------ handlers
\* variant: the colour is stored without re-enabling the overlay
selectPresetColorKeepsFlag(color) ==
    /\ currentColor' = color
    /\ UNCHANGED isLipstickEnabled

selectPresetColor(color) ==
    /\ currentColor' = color
    /\ isLipstickEnabled' = TRUE

\* click on a preset colour button, or on "apply" of the custom picker
ColorClick(color) ==
    /\ selectPresetColor(color)
    /\ lastStyleOp' = "selectPresetColor"
    /\ lastOp' = Op("selectPresetColor", color)
    /\ thrown' = "none"
    /\ UNCHANGED << phase, faceMesh, camera, isInitialized, detectionActive,
                    opacity, blur, canvas, ctx, pending, util >>

\* input event of the opacity slider
OpacityInput(value) ==
    /\ opacity' = parseFloat(value)
    /\ lastOp' = Op("opacityInput", value)
    /\ thrown' = "none"
    /\ UNCHANGED << phase, faceMesh, camera, isInitialized, detectionActive,
                    currentColor, blur, isLipstickEnabled, canvas, ctx,
                    pending, lastStyleOp, util >>

\* input event of the blur slider
BlurInput(value) ==
    /\ blur' = parseInt(value)
    /\ lastOp' = Op("blurInput", value)
    /\ thrown' = "none"
    /\ UNCHANGED << phase, faceMesh, camera, isInitialized, detectionActive,
                    currentColor, opacity, isLipstickEnabled, canvas, ctx,
                    pending, lastStyleOp, util >>

resetToNatural ==
    /\ isLipstickEnabled' = FALSE
    /\ canvas' = clearRect(canvas)

\* click on the reset button
ResetClick ==
    /\ resetToNatural
    /\ lastStyleOp' = "resetToNatural"
    /\ lastOp' = Op("resetToNatural", undefined)
    /\ thrown' = "none"
    /\ UNCHANGED << phase, faceMesh, camera, isInitialized, detectionActive,
                    currentColor, opacity, blur, ctx, pending, util >>

\* toggleCamera(); started is whether camera.start() succeeds.  A call on
\* this.camera while it is null throws a TypeError after the flag is set.
toggleCamera(started) ==
    /\ detectionActive' = ~detectionActive
    /\ IF camera = "null"
       THEN /\ camera' = camera
            /\ thrown' = "TypeError"
       ELSE IF detectionActive
       THEN /\ camera' = "stopped"
            /\ thrown' = "none"
       ELSE IF started
       THEN /\ camera' = "running"
            /\ thrown' = "none"
       ELSE /\ camera' = camera
            /\ thrown' = "Error"

\* click on the camera button
ToggleCameraClick(started) ==
    /\ toggleCamera(started)
    /\ lastOp' = Op("toggleCamera", undefined)
    /\ UNCHANGED << phase, faceMesh, isInitialized, currentColor, opacity,
                    blur, isLipstickEnabled, canvas, ctx, pending,
                    lastStyleOp, util >>

\* window resize
WindowResize ==
    /\ resizeCanvas
    /\ lastOp' = Op("resizeCanvas", undefined)
    /\ thrown' = "none"
    /\ UNCHANGED << phase, faceMesh, camera, isInitialized, detectionActive,
                    currentColor, opacity, blur, isLipstickEnabled, pending,
                    lastStyleOp, util >>

Next ==
    \/ InitializeCameraResolves
    \/ InitializeCameraRejects
    \/ \E at \in {"FaceMesh", "Camera"} : InitializeFaceMeshThrows(at)
    \/ CameraStartResolves
    \/ CameraStartRejects
    \/ OnFrame
    \/ \E id \in ResultIds : OnResults(id)
    \/ \E color \in ColorValues : ColorClick(color)
    \/ \E value \in SliderValues : OpacityInput(value)
    \/ \E value \in SliderValues : BlurInput(value)
    \/ ResetClick
    \/ \E started \in BOOLEAN : ToggleCameraClick(started)
    \/ WindowResize

Spec == Init /\ [][Next]_vars

\* ---------------------------------------------------------------- ColorUtils
null == [isNull |-> TRUE]

\* parseInt(pair, 16) of two hex digits
ParseHexPair(s, i) == HexValue(s[i]) * 16 + HexValue(s[i + 1])

\* hexToRgb(hex): /^#?([a-f\d]{2})([a-f\d]{2})([a-f\d]{2})$/i
hexToRgb(hex) ==
    LET body == IF Len(hex) > 0 /\ hex[1] = "#" THEN Tail(hex) ELSE hex
    IN  IF Len(body) = 6 /\ \A i \in 1..6 : IsHexDigit(body[i])
        THEN [isNull |-> FALSE,
              r |-> ParseHexPair(body, 1),
              g |-> ParseHexPair(body, 3),
              b |-> ParseHexPair(body, 5)]
        ELSE null

RECURSIVE ToString16(_)
\* n.toString(16) for n >= 0: lower-case digits, no leading zeros
ToString16(n) ==
    IF n < 16 THEN << HexLower[n + 1] >>
    ELSE Append(ToString16(n \div 16), HexLower[(n % 16) + 1])

\* x << k; for the components 0..255 that hexToRgb yields and k <= 24 the
\* result stays below 2^31, where the 32-bit shift is exact
ShiftLeft(x, k) == x * (2 ^ k)

\* variant: the components are joined without the 1 << 24 padding
rgbToHexUnpadded(r, g, b) ==
    <<"#">> \o ToString16(ShiftLeft(r, 16) + ShiftLeft(g, 8) + b)

\* rgbToHex(r, g, b):
\*   "#" + ((1 << 24) + (r << 16) + (g << 8) + b).toString(16).slice(1)
rgbToHex(r, g, b) ==
    <<"#">> \o Tail(ToString16(ShiftLeft(1, 24) + ShiftLeft(r, 16)
                                 + ShiftLeft(g, 8) + b))

\* the colour strings handed to hexToRgb: six characters with and without
\* the leading "#", and three-character shorthands
HexChars == {"0", "9", "c", "F"}
HexInputs ==
    LET six   == [1..6 -> HexChars]
        three == [1..3 -> HexChars]
    IN  six \cup { <<"#">> \o c : c \in six } \cup { <<"#">> \o c : c \in three }

InitColor ==
    /\ phase = "awaitCamera"
    /\ faceMesh = FALSE
    /\ camera = "null"
    /\ isInitialized = FALSE
    /\ detectionActive = FALSE
    /\ currentColor = InitialColor
    /\ opacity = Num(InitialOpacity)
    /\ blur = Num(InitialBlur)
    /\ isLipstickEnabled = TRUE
    /\ canvas = <<>>
    /\ ctx = NewContext
    /\ pending = 0
    /\ lastOp = Op("constructor", undefined)
    /\ thrown = "none"
    /\ lastStyleOp = "none"
    /\ \E c \in HexInputs : util = [pc |-> "hex", hex |-> c]

appVars == << phase, faceMesh, camera, isInitialized, detectionActive,
              currentColor, opacity, blur, isLipstickEnabled, canvas, ctx,
              pending, lastOp, thrown, lastStyleOp >>

\* ColorUtils.hexToRgb(util.hex)
HexToRgbCall ==
    /\ util.pc = "hex"
    /\ LET rgb == hexToRgb(util.hex)
       IN  util' = [pc |-> IF rgb.isNull THEN "null" ELSE "rgb",
                    hex |-> util.hex, rgb |-> rgb]
    /\ UNCHANGED appVars

\* ColorUtils.rgbToHex of the components hexToRgb returned
RgbToHexCall ==
    /\ util.pc = "rgb"
    /\ util' = [pc |-> "done", hex |-> util.hex, rgb |-> util.rgb,
                out |-> rgbToHex(util.rgb.r, util.rgb.g, util.rgb.b)]
    /\ UNCHANGED appVars

NextColor ==
    \/ HexToRgbCall
    \/ RgbToHexCall

SpecColor == InitColor /\ [][NextColor]_vars

\* =================================================================== claims
\* '#' followed by exactly six hex digits
IsValidColor(c) ==
    /\ Len(c) = 7
    /\ c[1] = "#"
    /\ \A i \in 2..7 : IsHexDigit(c[i])

\* the last handler was processFaceMeshResults
Processed == lastOp.op = "processFaceMeshResults"

\* the first face of a result lacks a landmark of the outer lip
LacksLipIndex(results) ==
    /\ HasFace(results)
    /\ \E k \in 1..Len(outerLip) :
          ~HasLandmark(results.multiFaceLandmarks[1], outerLip[k])

\* C1: after processFaceMeshResults with a result of zero faces (field
\* missing or empty), or with isLipstickEnabled false, the overlay canvas is
\* fully cleared and no error was raised.
C1_NoFaceOrDisabledClears ==
    (Processed /\ (~HasFace(Results[lastOp.arg]) \/ ~isLipstickEnabled))
        => (canvas = <<>> /\ thrown = "none")

C1_Witness ==
    /\ Processed
    /\ lastOp.arg \in {"noField", "noFace"}
    /\ isLipstickEnabled
    /\ canvas = <<>>
    /\ pending = 0
    /\ detectionActive

\* C2 (as claimed): while detection is paused, no step runs
\* processFaceMeshResults and no step changes the overlay canvas.
C2_PausedHoldsOverlay ==
    [][(~detectionActive /\ ~detectionActive')
          => (lastOp'.op # "processFaceMeshResults" /\ canvas' = canvas)]_vars

\* C3: the overlay and the context state left by processFaceMeshResults are
\* those of the same call made on a blank canvas with a default context: they
\* depend on the call's result and the current style only, the context is
\* back to source-over / alpha 1.0, and at most the one layer of this call
\* is on the canvas.
C3_OverlayDependsOnCallOnly ==
    Processed =>
        LET fresh == processFaceMeshResults(<<>>, NewContext, Results[lastOp.arg])
        IN  /\ canvas = fresh.canvas
            /\ ctx = NewContext
            /\ Len(canvas) <= 1

C3_Witness ==
    /\ Processed
    /\ lastOp.arg = "faceB"
    /\ Len(canvas) = 1
    /\ canvas[1].alpha = opacity
    /\ currentColor # InitialColor
    /\ lastStyleOp = "selectPresetColor"

\* C4 (as claimed): a selectPresetColor call with a malformed colour string
\* leaves the style unchanged and raises an error to the caller.
C4_MalformedColorRejected ==
    [][(lastOp'.op = "selectPresetColor" /\ ~IsValidColor(lastOp'.arg))
          => (style' = style /\ thrown' # "none")]_vars

\* C5 (as claimed): a frame whose landmarks lack an outer-lip index ends
\* with no overlay, the main context in its default state and the failure
\* contained in that frame (no error escapes the result callback); a frame
\* with complete landmarks renders its one layer without error.
C5_MissingIndexContained ==
    /\ (Processed /\ isLipstickEnabled /\ LacksLipIndex(Results[lastOp.arg]))
          => (canvas = <<>> /\ ctx = NewContext /\ thrown = "none")
    /\ (Processed /\ isLipstickEnabled /\ HasFace(Results[lastOp.arg])
            /\ ~LacksLipIndex(Results[lastOp.arg]))
          => (Len(canvas) = 1 /\ ctx = NewContext /\ thrown = "none")

\* the layer was composited with the blur of the given radius: the filter
\* was in force when its pixels were painted or when it was drawn
IsBlurred(layer, radius) ==
    \/ layer.filter = BlurFilter(radius)
    \/ /\ Len(layer.image) > 0
       /\ \A i \in 1..Len(layer.image) :
             layer.image[i].filter = BlurFilter(radius)

\* C6 (as claimed): with blur > 0, the overlay a frame blends onto the main
\* canvas is the lip layer blurred by that radius.
C6_BlurReachesOverlay ==
    (Processed /\ Len(canvas) = 1 /\ GreaterThanZero(blur))
        => IsBlurred(canvas[1], blur)

\* C7 (as claimed): in every reachable state opacity is a number in [0, 1]
\* and blur is a non-negative integer.
C7_StyleInRange ==
    /\ ~opacity.isNaN
    /\ opacity.value >= 0
    /\ opacity.value <= TenthsPerUnit
    /\ ~blur.isNaN
    /\ blur.value >= 0

\* C8 (as claimed): once initialization has failed, no step makes
\* detectionActive true, runs processFaceMeshResults, or raises an error.
C8_FailedStaysDisabled ==
    [][(phase = "failed")
          => /\ (detectionActive' => detectionActive)
             /\ lastOp'.op # "processFaceMeshResults"
             /\ thrown' = "none"]_vars

\* the colour string with its hex letters in lower case
ToLowerCase(c) ==
    [i \in 1..Len(c) |->
        IF \E k \in 1..16 : HexUpper[k] = c[i]
        THEN HexLower[CHOOSE k \in 1..16 : HexUpper[k] = c[i]]
        ELSE c[i]]

\* C9 (as claimed): for a valid '#RRGGBB' string c of either letter case,
\* rgbToHex of hexToRgb(c) is c itself.
C9_RoundTripExact ==
    (util.pc = "done" /\ IsValidColor(util.hex)) => util.out = util.hex

\* C9 (amended): for a valid '#RRGGBB' string c of either letter case,
\* rgbToHex of hexToRgb(c) is c with its letters in lower case (so it is c
\* itself exactly when c has no upper-case letter).
C9_RoundTripLowerCase ==
    (util.pc = "done" /\ IsValidColor(util.hex))
        => /\ util.out = ToLowerCase(util.hex)
           /\ (util.out = util.hex) = (ToLowerCase(util.hex) = util.hex)

C9_Witness ==
    /\ util.pc = "done"
    /\ IsValidColor(util.hex)
    /\ util.hex = <<"#", "F", "c", "0", "9", "0", "F">>
    /\ util.out = <<"#", "f", "c", "0", "9", "0", "f">>

\* C10: isLipstickEnabled is false exactly when resetToNatural is the more
\* recent of selectPresetColor / resetToNatural to have run (true before
\* either has), whatever sliders, camera toggles and frames came since; and
\* a frame processed after resetToNatural, before the next colour selection,
\* leaves no overlay.
C10_EnabledFollowsLastStyleOp ==
    /\ isLipstickEnabled = (lastStyleOp # "resetToNatural")
    /\ (Processed /\ lastStyleOp = "resetToNatural") => canvas = <<>>

C10_Witness ==
    /\ Processed
    /\ lastOp.arg = "faceA"
    /\ lastStyleOp = "resetToNatural"
    /\ opacity # Num(InitialOpacity)
    /\ blur # Num(InitialBlur)
    /\ ~isLipstickEnabled
    /\ canvas = <<>>

====
